---- MODULE Spec2Model ----
(***************************************************************************)
(* A model of changelogup.py (class AutoChangelogger).                     *)
(*                                                                         *)
(* Text is modelled in two grains.  Label names and pull-request titles,   *)
(* which categorize_pr inspects character by character, are sequences of   *)
(* one-character strings.  The changelog document is a sequence of tokens  *)
(* [k, v]: a newline character ("nl"), a YYYY-MM-DD date ("date", v the    *)
(* day number), a category display header ("hdr", v the rank of the        *)
(* category), an entry line as produced by format_changelog_entry          *)
(* ("entry", v the pull request number) and fixed pieces of text ("txt").  *)
(* The "nl" token and the txt token Hash are one character long, and every *)
(* modelled document starts with one of them, so that an offset counted in *)
(* tokens and the offset -1 + 2 = 1 of a failed str.find agree with the    *)
(* character offsets of the program.                                       *)
(*                                                                         *)
(* Time is counted in ticks; a day has TicksPerDay ticks.                  *)
(***************************************************************************)
EXTENDS Integers, Sequences, FiniteSets, TLC

VARIABLES
    file,              \* the changelog file: [exists, content]
    repo,              \* the repository's pull requests, by number
    updated,           \* the numbers of the closed pull requests, the most
                       \*   recently updated first
    now,               \* the clock (datetime.now()), in ticks
    runs,              \* number of update_changelog invocations so far
    unchanged,         \* a run has written the file, and no pull request
                       \*   has been closed or merged since the last run
    pc,                \* "idle", or "done": an invocation has just run and
                       \*   its process has not exited yet
    printed,           \* what the invocation printed
    existing_content,  \* locals of the update_changelog invocation
    last_update,
    pulls,             \*   what repo.get_pulls returned, in order
    prs,               \*   what get_merged_prs returned
    new_section,
    header_end,
    pr,                \* argument of the last stand-alone categorize_pr call
    category           \* and its result

vars == <<file, repo, updated, now, runs, unchanged, pc, printed,
          existing_content, last_update, pulls, prs, new_section, header_end,
          pr, category>>

locals == <<printed, existing_content, last_update, pulls, prs, new_section,
            header_end>>

runVars == <<file, repo, updated, now, runs, unchanged, pc, locals>>

\* ------------------------------------------------------------------ bounds
MaxNow == 2
MaxRuns == 2
NumPRs == 3
MaxLabels == 2

TicksPerDay == 2

\* ------------------------------------------------------------- characters
UpperAlpha ==
    <<"A","B","C","D","E","F","G","H","I","J","K","L","M",
      "N","O","P","Q","R","S","T","U","V","W","X","Y","Z">>

LowerAlpha ==
    <<"a","b","c","d","e","f","g","h","i","j","k","l","m",
      "n","o","p","q","r","s","t","u","v","w","x","y","z">>

Range(s) == {s[i] : i \in 1..Len(s)}

Min(S) == CHOOSE x \in S : \A y \in S : x <= y

\* str.lower()
LowerChar(ch) ==
    IF \E i \in 1..26 : UpperAlpha[i] = ch
    THEN LowerAlpha[CHOOSE i \in 1..26 : UpperAlpha[i] = ch]
    ELSE ch

lower(s) == [i \in 1..Len(s) |-> LowerChar(s[i])]

\* the regular expression class \w
WordChars ==
    Range(UpperAlpha) \cup Range(LowerAlpha)
    \cup {"0","1","2","3","4","5","6","7","8","9","_"}

\* the regular expression atom . (no newline)
Dot(ch) == ch # "\n"

\* s has p at position i (1-based)
StartsWithAt(s, i, p) ==
    /\ i + Len(p) - 1 <= Len(s)
    /\ SubSeq(s, i, i + Len(p) - 1) = p

\* the operator `in' on strings: p in s
Contains(p, s) == \E i \in 1..(Len(s) + 1) : StartsWithAt(s, i, p)

\* ------------------------------------------------------------- categories
\* self.categories.keys(), in insertion order
CategoryOrder ==
    <<"feature", "bug", "docs", "refactor", "test", "chore", "breaking">>

Categories == Range(CategoryOrder)

Rank(c) == CHOOSE k \in 1..Len(CategoryOrder) : CategoryOrder[k] = c

\* the characters of a category key
Keyword(c) ==
    CASE c = "feature"  -> <<"f","e","a","t","u","r","e">>
      [] c = "bug"      -> <<"b","u","g">>
      [] c = "docs"     -> <<"d","o","c","s">>
      [] c = "refactor" -> <<"r","e","f","a","c","t","o","r">>
      [] c = "test"     -> <<"t","e","s","t">>
      [] c = "chore"    -> <<"c","h","o","r","e">>
      [] c = "breaking" -> <<"b","r","e","a","k","i","n","g">>

\* the alternation (feat|fix|docs|refactor|test|chore|breaking)
CommitTypes ==
    << <<"f","e","a","t">>, <<"f","i","x">>, Keyword("docs"),
       Keyword("refactor"), Keyword("test"), Keyword("chore"),
       Keyword("breaking") >>

\* ": .+" at position i
TailAt(s, i) ==
    /\ StartsWithAt(s, i, <<":", " ">>)
    /\ i + 2 <= Len(s)
    /\ Dot(s[i + 2])

\* "\(.+\)" from position i to position j
ScopeAt(s, i, j) ==
    /\ i <= Len(s) /\ s[i] = "("
    /\ j > i + 1 /\ j <= Len(s) /\ s[j] = ")"
    /\ \A k \in (i + 1)..(j - 1) : Dot(s[k])

\* re.match(conventional_commit_pattern, title)
conventional_commit_pattern(title) ==
    \E t \in 1..Len(CommitTypes) :
        LET p == CommitTypes[t]
            i == Len(p) + 1
        IN  /\ StartsWithAt(title, 1, p)
            /\ \/ TailAt(title, i)
               \/ \E j \in i..Len(title) :
                      ScopeAt(title, i, j) /\ TailAt(title, j + 1)

\* re.match(r'^(\w+)', title).group(1): the longest leading run of \w
type_match(title) ==
    LET n == Min({k \in 0..Len(title) :
                     k = Len(title) \/ title[k + 1] \notin WordChars})
    IN  SubSeq(title, 1, n)

\* type_mapping.get(commit_type, 'chore')
type_mapping(commit_type) ==
    CASE commit_type = CommitTypes[1] -> "feature"
      [] commit_type = CommitTypes[2] -> "bug"
      [] commit_type = CommitTypes[3] -> "docs"
      [] commit_type = CommitTypes[4] -> "refactor"
      [] commit_type = CommitTypes[5] -> "test"
      [] commit_type = CommitTypes[6] -> "chore"
      [] commit_type = CommitTypes[7] -> "breaking"
      [] OTHER -> "chore"

\* the inner loop: the first category key, in key order, found in label_name
LabelCategory(label_name) ==
    LET hits == {k \in 1..Len(CategoryOrder) :
                    Contains(Keyword(CategoryOrder[k]), label_name)}
    IN  IF hits = {} THEN "none" ELSE CategoryOrder[Min(hits)]

\* the outer loop over pr.labels, from label i on
RECURSIVE LabelScan(_, _)
LabelScan(labels, i) ==
    IF i > Len(labels) THEN "none"
    ELSE LET c == LabelCategory(lower(labels[i]))
         IN  IF c # "none" THEN c ELSE LabelScan(labels, i + 1)

TitleCategory(title) ==
    IF conventional_commit_pattern(title)
    THEN type_mapping(type_match(title))
    ELSE "chore"

\* the title is looked at before the labels
categorize_pr_title_first(p) ==
    IF conventional_commit_pattern(p.title)
    THEN type_mapping(type_match(p.title))
    ELSE LET c == LabelScan(p.labels, 1)
         IN  IF c # "none" THEN c ELSE "chore"

categorize_pr(p) ==
    LET c == LabelScan(p.labels, 1)
    IN  IF c # "none" THEN c ELSE TitleCategory(p.title)

\* --------------------------------------------------- label and title texts
\* label names: bug, Feature, latest, wontfix, docs-bug, BREAKING
LabelCatalogue ==
    << <<"b","u","g">>,
       <<"F","e","a","t","u","r","e">>,
       <<"l","a","t","e","s","t">>,
       <<"w","o","n","t","f","i","x">>,
       <<"d","o","c","s","-","b","u","g">>,
       <<"B","R","E","A","K","I","N","G">> >>

\* titles: "feat: a", "fix(x): a", "a fix", "feature: a", "docs:a", "test(): a", "chore: a", "breaking(a)(b): c", "Fix: a", "refactor: ", "", "test_x: a"
TitleCatalogue ==
    << <<"f","e","a","t",":"," ","a">>,
       <<"f","i","x","(","x",")",":"," ","a">>,
       <<"a"," ","f","i","x">>,
       <<"f","e","a","t","u","r","e",":"," ","a">>,
       <<"d","o","c","s",":","a">>,
       <<"t","e","s","t","(",")",":"," ","a">>,
       <<"c","h","o","r","e",":"," ","a">>,
       <<"b","r","e","a","k","i","n","g","(","a",")","(","b",")",":"," ","c">>,
       <<"F","i","x",":"," ","a">>,
       <<"r","e","f","a","c","t","o","r",":"," ">>,
       <<>>,
       <<"t","e","s","t","_","x",":"," ","a">> >>

\* -------------------------------------------------------------- documents
NL == [k |-> "nl", v |-> 0]

Txt(i) == [k |-> "txt", v |-> i]

Hash == Txt(1)       \* "#"

Title == Txt(2)      \* " Changelog"

Notable == Txt(3)    \* "All notable changes to this project will be ..."

SecOpen == Txt(4)    \* "## ["

SecClose == Txt(5)   \* "]"

Date(d) == [k |-> "date", v |-> d]

\* self.categories[c], the display header of category c
category_header(c) == [k |-> "hdr", v |-> Rank(c)]

\* "- {description} (#{pr.number}) - {authors}"
format_changelog_entry(p) == [k |-> "entry", v |-> p.number]

\* "# Changelog\n\nAll notable changes ... in this file.\n\n"
DefaultHeader == <<Hash, Title, NL, NL, Notable, NL, NL>>

None == -1

\* datetime.strftime('%Y-%m-%d'): the day of an instant
strftime(t) == Date(t \div TicksPerDay)

\* datetime.strptime(token, '%Y-%m-%d'): midnight of the day
strptime(tok) == tok.v * TicksPerDay

\* re.findall(date_pattern, content)
date_pattern(content) == SelectSeq(content, LAMBDA t : t.k = "date")

\* str.find("\n\n"): 0-based offset of the first blank-line boundary, or -1
find(content) ==
    LET at == {i \in 1..(Len(content) - 1) :
                  content[i] = NL /\ content[i + 1] = NL}
    IN  IF at = {} THEN -1 ELSE Min(at) - 1

\* the slices s[:h] and s[h:], h >= 0
SliceTo(s, h) == SubSeq(s, 1, IF h < Len(s) THEN h ELSE Len(s))

SliceFrom(s, h) == SubSeq(s, (IF h < Len(s) THEN h ELSE Len(s)) + 1, Len(s))

\* ---------------------------------------------------------- pull requests
\* labels and title of pull request n
PRData(n) ==
    CASE n % 4 = 1 -> [labels |-> <<LabelCatalogue[1]>>,
                       title  |-> TitleCatalogue[3]]
      [] n % 4 = 2 -> [labels |-> <<>>,
                       title  |-> TitleCatalogue[1]]
      [] n % 4 = 3 -> [labels |-> <<LabelCatalogue[4]>>,
                       title  |-> TitleCatalogue[2]]
      [] n % 4 = 0 -> [labels |-> <<LabelCatalogue[3]>>,
                       title  |-> TitleCatalogue[11]]

PRNumbers == 1..NumPRs

\* the pull request object the client hands out for number n
PullRequest(n) ==
    [number    |-> n,
     merged    |-> repo[n].merged,
     merged_at |-> repo[n].merged_at]

\* categorize_pr on each pull request of the repository
PoolCategory == [n \in PRNumbers |-> categorize_pr(PRData(n))]

\* repo.get_pulls(state='closed', sort='updated', direction='desc'): the
\* closed pull requests, the most recently updated first
get_pulls == [i \in 1..Len(updated) |-> PullRequest(updated[i])]

\* the merged flag is not looked at
get_merged_prs_any_closed(got, since_date) ==
    SelectSeq(got, LAMBDA p :
        since_date = None \/ p.merged_at >= since_date)

get_merged_prs(got, since_date) ==
    SelectSeq(got, LAMBDA p :
        p.merged /\ (since_date = None \/ p.merged_at >= since_date))

\* ------------------------------------------------------- update_changelog
\* lines 111-119: existing_content
ExistingContent(f) == IF f.exists THEN f.content ELSE DefaultHeader

\* lines 111-119: last_update
LastUpdate(f) ==
    IF f.exists /\ date_pattern(f.content) # <<>>
    THEN strptime(date_pattern(f.content)[1])
    ELSE None

\* lines 128-133: categorized_prs, its keys in insertion order
RECURSIVE Group(_, _)
Group(sel, i) ==
    IF i = 0 THEN [keys |-> <<>>, items |-> [c \in Categories |-> <<>>]]
    ELSE LET g == Group(sel, i - 1)
             c == PoolCategory[sel[i].number]
         IN  [keys  |-> IF c \in Range(g.keys) THEN g.keys
                        ELSE Append(g.keys, c),
              items |-> [g.items EXCEPT ![c] = Append(@, sel[i])]]

\* the blocks are written in the order of the keys of categorized_prs
SectionOrder_by_arrival(categorized_prs) == categorized_prs.keys

\* line 137: the order in which the category blocks are written
SectionOrder(categorized_prs) == CategoryOrder

RECURSIVE EntryLines(_, _)
EntryLines(list, i) ==
    IF i > Len(list) THEN <<>>
    ELSE <<format_changelog_entry(list[i]), NL>> \o EntryLines(list, i + 1)

RECURSIVE Blocks(_, _, _)
Blocks(order, categorized_prs, i) ==
    IF i > Len(order) THEN <<>>
    ELSE LET c == order[i]
         IN  (IF c \in Range(categorized_prs.keys)
                    /\ categorized_prs.items[c] # <<>>
              THEN <<category_header(c), NL, NL>>
                   \o EntryLines(categorized_prs.items[c], 1) \o <<NL>>
              ELSE <<>>)
             \o Blocks(order, categorized_prs, i + 1)

\* lines 136-142: new_section
NewSection(sel, t) ==
    LET categorized_prs == Group(sel, Len(sel))
    IN  <<NL, SecOpen, strftime(t), SecClose, NL, NL>>
        \o Blocks(SectionOrder(categorized_prs), categorized_prs, 1)

\* line 145
HeaderEnd(existing) == find(existing) + 2

\* what follows the insertion point is lost
updated_content_truncating(existing, h, section) ==
    SliceTo(existing, h) \o section

\* lines 146-150
updated_content(existing, h, section) ==
    SliceTo(existing, h) \o section \o SliceFrom(existing, h)

\* no early return
NothingNew_never(sel) == FALSE

\* line 123: if not prs
NothingNew(sel) == sel = <<>>

NoChanges == "No new changes to add to changelog."

Updated == "Changelog updated successfully"

update_changelog ==
    /\ pc = "idle"
    /\ runs < MaxRuns
    /\ LET got      == get_pulls
             existing == ExistingContent(file)
             since    == LastUpdate(file)
             sel      == get_merged_prs(got, since)
             section  == NewSection(sel, now)
             h        == HeaderEnd(existing)
       IN  /\ existing_content' = existing
           /\ last_update' = since
           /\ pulls' = got
           /\ prs' = sel
           /\ IF NothingNew(sel)
              THEN /\ printed' = NoChanges
                   /\ file' = file
                   /\ unchanged' = unchanged
                   /\ new_section' = <<>>
                   /\ header_end' = 0
              ELSE /\ new_section' = section
                   /\ header_end' = h
                   /\ file' = [exists  |-> TRUE,
                               content |-> updated_content(existing, h, section)]
                   /\ printed' = Updated
                   /\ unchanged' = TRUE
    /\ runs' = runs + 1
    /\ pc' = "done"
    /\ UNCHANGED <<updated, repo, now, pr, category>>

\* the process exits: its locals and its output are gone
Exit ==
    /\ pc = "done"
    /\ pc' = "idle"
    /\ printed' = ""
    /\ existing_content' = <<>>
    /\ last_update' = None
    /\ pulls' = <<>>
    /\ prs' = <<>>
    /\ new_section' = <<>>
    /\ header_end' = 0
    /\ UNCHANGED <<updated, file, repo, now, runs, unchanged, pr, category>>

\* ------------------------------------------------------- the environment
\* A pull request is merged, now.  Closing or merging is the last update of
\* a pull request: `updated' lists the closed ones in reverse order of closing.
MergePR(n) ==
    /\ pc = "idle"
    /\ runs < MaxRuns
    /\ unchanged' = FALSE
    /\ updated' = <<n>> \o updated
    /\ repo[n].state = "open"
    /\ repo' = [repo EXCEPT ![n] =
                  [state |-> "closed", merged |-> TRUE, merged_at |-> now]]
    /\ UNCHANGED <<file, now, runs, pc, locals, pr, category>>

\* a pull request is closed without being merged
ClosePR(n) ==
    /\ pc = "idle"
    /\ runs < MaxRuns
    /\ unchanged' = FALSE
    /\ updated' = <<n>> \o updated
    /\ repo[n].state = "open"
    /\ repo' = [repo EXCEPT ![n] =
                  [state |-> "closed", merged |-> FALSE, merged_at |-> None]]
    /\ UNCHANGED <<file, now, runs, pc, locals, pr, category>>

\* time passes
Tick ==
    /\ pc = "idle"
    /\ runs < MaxRuns
    /\ now < MaxNow
    /\ now' = now + 1
    /\ UNCHANGED <<file, repo, updated, runs, unchanged, pc, locals, pr,
                   category>>

\* the changelog files a first run may find
Missing == [exists |-> FALSE, content |-> <<>>]

OldSection ==
    <<SecOpen, Date(0), SecClose, NL, NL,
      category_header("bug"), NL, NL, [k |-> "entry", v |-> 0], NL>>

InitFiles ==
    { Missing,
      [exists |-> TRUE, content |-> <<>>],
      \* the layout of the file format: header block, blank line, sections
      [exists |-> TRUE, content |-> DefaultHeader \o OldSection],
      \* no blank line between the title and the first dated section
      [exists |-> TRUE, content |-> <<Hash, Title, NL>> \o OldSection],
      \* no blank line at all
      [exists |-> TRUE,
       content |-> <<Hash, Title, NL, SecOpen, Date(0), SecClose, NL,
                     [k |-> "entry", v |-> 0], NL>>] }

NoPR == [labels |-> <<>>, title |-> <<>>]

InitRun ==
    /\ repo = [n \in PRNumbers |->
                 [state |-> "open", merged |-> FALSE, merged_at |-> None]]
    /\ updated = <<>>
    /\ now = 0
    /\ runs = 0
    /\ unchanged = FALSE
    /\ pc = "idle"
    /\ printed = ""
    /\ existing_content = <<>>
    /\ last_update = None
    /\ pulls = <<>>
    /\ prs = <<>>
    /\ new_section = <<>>
    /\ header_end = 0

Init ==
    /\ file \in InitFiles
    /\ InitRun
    /\ pr = NoPR
    /\ category = "none"

Next ==
    \/ update_changelog
    \/ Exit
    \/ \E n \in PRNumbers : MergePR(n)
    \/ \E n \in PRNumbers : ClosePR(n)
    \/ Tick

Spec == Init /\ [][Next]_vars

\* the runs that start with no changelog file
InitFresh ==
    /\ file = Missing
    /\ InitRun
    /\ pr = NoPR
    /\ category = "none"

SpecFresh == InitFresh /\ [][Next]_vars

\* ------------------------------------------- categorize_pr on its own
LabelLists ==
    UNION {[1..n -> Range(LabelCatalogue)] : n \in 0..MaxLabels}

InitCat ==
    /\ file = Missing
    /\ InitRun
    /\ pr \in [labels : LabelLists, title : Range(TitleCatalogue)]
    /\ category = "none"

Categorize ==
    /\ category = "none"
    /\ category' = categorize_pr(pr)
    /\ UNCHANGED <<pr, runVars>>

NextCat == Categorize

SpecCat == InitCat /\ [][NextCat]_vars

\* ------------------------------------------------------------ the claims
Max(S) == CHOOSE x \in S : \A y \in S : x >= y

Indices(s) == [i \in 1..Len(s) |-> i]

\* the cutoff a document gives: midnight of its first date, None without one
Cutoff(doc) ==
    LET ds == {i \in 1..Len(doc) : doc[i].k = "date"}
    IN  IF ds = {} THEN None ELSE doc[Min(ds)].v * TicksPerDay

Qualifies(p, cutoff) ==
    p.merged /\ (cutoff = None \/ p.merged_at >= cutoff)

\* the ranks of the category headers of a text, in order
HeaderRanks(s) ==
    LET h == SelectSeq(s, LAMBDA t : t.k = "hdr")
    IN  [i \in 1..Len(h) |-> h[i].v]

\* the rank of the category header above position i, 0 without one
BlockOf(s, i) ==
    LET hs == {j \in 1..i : s[j].k = "hdr"}
    IN  IF hs = {} THEN 0 ELSE s[Max(hs)].v

\* the pull request numbers of the entry lines under the header of rank r
EntriesUnder(s, r) ==
    LET at == SelectSeq(Indices(s),
                        LAMBDA i : s[i].k = "entry" /\ BlockOf(s, i) = r)
    IN  [i \in 1..Len(at) |-> s[at[i]].v]

NumberOfEntries(s) == Len(SelectSeq(s, LAMBDA t : t.k = "entry"))

\* the dates of the dated section headers of a document, in order
SectionDates(doc) ==
    LET at == SelectSeq(Indices(doc),
                        LAMBDA i : /\ doc[i].k = "date"
                                   /\ i > 1 /\ doc[i - 1] = SecOpen)
    IN  [i \in 1..Len(at) |-> doc[at[i]].v]

Numbers(list) == [i \in 1..Len(list) |-> list[i].number]

Wrote == pc = "done" /\ printed = Updated

RunStep == pc = "idle" /\ pc' = "done"

\* the merged pull requests of the repository
Merged == {n \in PRNumbers : repo[n].merged}

\* C1: a run that follows a run that wrote the file, with the pull requests
\* unchanged and a cutoff >= every merge timestamp, selects nothing and
\* leaves the file as it is.
C1_SecondRunNoOp ==
    [][(RunStep /\ unchanged /\ Cutoff(file.content) # None
          /\ \A n \in Merged : Cutoff(file.content) >= repo[n].merged_at)
       => (prs' = <<>> /\ file' = file)]_vars

\* the categories some label of the list names
MatchedCategories(labels) ==
    {c \in Categories :
        \E i \in 1..Len(labels) : Contains(Keyword(c), lower(labels[i]))}

FirstInOrder(cs) == CategoryOrder[Min({Rank(c) : c \in cs})]

\* C2: when the labels match more than one category, categorize_pr returns
\* the matching category that comes first in the enumeration order.
C2_FirstCategoryInEnumerationOrder ==
    (category # "none" /\ Cardinality(MatchedCategories(pr.labels)) > 1)
    => category = FirstInOrder(MatchedCategories(pr.labels))

C4_Splice ==
    [][(RunStep /\ printed' = Updated)
       => LET existing == IF file.exists THEN file.content ELSE DefaultHeader
          IN  /\ file'.exists
              /\ \E h \in 0..Len(existing) :
                   file'.content = SubSeq(existing, 1, h) \o new_section'
                                   \o SubSeq(existing, h + 1, Len(existing))]_vars

\* a section has been put inside an existing document
C4_Witness ==
    /\ Wrote
    /\ header_end > 1
    /\ header_end < Len(existing_content)
    /\ \E i \in 1..Len(existing_content) : existing_content[i].k = "entry"

NonIncreasing(ds) == \A i \in 1..(Len(ds) - 1) : ds[i] >= ds[i + 1]

\* C5: the new section goes in before every dated section of the existing
\* document, and the dated sections of the written document are in reverse
\* chronological order, the new one first.
C5_NewSectionFirst ==
    Wrote =>
      /\ \A i \in 1..Len(existing_content) :
           (i <= header_end) => existing_content[i] # SecOpen
      /\ NonIncreasing(SectionDates(file.content))

\* C6: a run for which no supplied pull request qualifies leaves the file as
\* it is, a missing file missing, and prints the informational message.
C6_NoQualifyingNoOp ==
    [][(RunStep
          /\ \A n \in PRNumbers :
               repo[n].state = "closed"
               => ~Qualifies(repo[n], IF file.exists
                                      THEN Cutoff(file.content) ELSE None))
       => (file' = file /\ printed' = NoChanges)]_vars

\* every supplied merged pull request was merged before the cutoff
C6_Witness ==
    /\ pc = "done" /\ printed = NoChanges
    /\ file.exists /\ last_update # None
    /\ \E p \in Range(pulls) : p.merged
    /\ \A p \in Range(pulls) : p.merged => p.merged_at < last_update

\* C7: the category headers of a written section are in enumeration order,
\* none twice, and they are the categories of the selected pull requests.
C7_BlocksInEnumerationOrder ==
    Wrote =>
      LET hs == HeaderRanks(new_section)
      IN  /\ \A i \in 1..(Len(hs) - 1) : hs[i] < hs[i + 1]
          /\ Range(hs) = {Rank(PoolCategory[p.number]) : p \in Range(prs)}

\* a bug fix arrived before a feature, and the feature block comes first
C7_Witness ==
    /\ Wrote
    /\ Len(prs) >= 2
    /\ PoolCategory[prs[1].number] = "bug"
    /\ PoolCategory[prs[2].number] = "feature"
    /\ HeaderRanks(new_section) = <<1, 2>>

\* C8: from a missing or an empty file and one merged pull request, the
\* written document is the default header block followed by one dated section
\* of the current date with one category block.
C8_FreshDocument ==
    [][(RunStep /\ (~file.exists \/ file.content = <<>>)
          /\ Cardinality({n \in PRNumbers : repo[n].state = "closed"}) = 1
          /\ Cardinality(Merged) = 1)
       => /\ file'.exists
          /\ \E c \in Categories, n \in Merged :
               file'.content =
                 DefaultHeader
                 \o <<NL, SecOpen, Date(now \div TicksPerDay), SecClose, NL, NL,
                      [k |-> "hdr", v |-> Rank(c)], NL, NL,
                      [k |-> "entry", v |-> n], NL, NL>>]_vars

\* C9: the entry lines of a written section are the supplied pull requests
\* that are merged and not older than the cutoff, each once, under its
\* category, in the order supplied.
C9_EntriesAreTheQualifying ==
    Wrote =>
      LET cutoff == Cutoff(existing_content)
          sel    == SelectSeq(pulls, LAMBDA p : Qualifies(p, cutoff))
      IN  /\ NumberOfEntries(new_section) = Len(sel)
          /\ \A c \in Categories :
               EntriesUnder(new_section, Rank(c)) =
                 Numbers(SelectSeq(sel, LAMBDA p :
                           PoolCategory[p.number] = c))

\* two bug fixes are entered in the order supplied, a third pull request,
\* unmerged or too old, is left out
C9_Witness ==
    /\ Wrote
    /\ Len(pulls) = 3 /\ Len(prs) = 2
    /\ EntriesUnder(new_section, Rank("bug")) = <<3, 1>>

\* C10: no pull request has an entry in the document twice.
C10_NoPullRequestTwice ==
    \A n \in PRNumbers :
      Cardinality({i \in 1..Len(file.content) :
                     file.content[i] = [k |-> "entry", v |-> n]}) <= 1

====
